---- MODULE Spec2Model ----
(***************************************************************************)
(* a-piece-of-pisi: the run of main (src/src/main.rs).                     *)
(*                                                                         *)
(*   catalog (mapping) -> dependency graph (solve) -> graph.topo()         *)
(*     -> bounded fetch-and-hash (buffer_unordered + try_collect)          *)
(*     -> source buckets -> one stone.yml per bucket (convert)             *)
(*                                                                         *)
(* Package names are numbered in the order the BTreeMap of main.rs:144     *)
(* sorts them.  Dag<String> is the `dag` crate imported at main.rs:21, a   *)
(* wrapper of a petgraph digraph: get_index finds the first node holding   *)
(* the name, add_node_or_get_index appends a node when there is none,      *)
(* add_edge refuses an edge that already exists and an edge a -> b when a  *)
(* is reachable from b (it keeps the graph acyclic), and topo() is         *)
(* petgraph's Topo walker.                                                 *)
(***************************************************************************)
EXTENDS Integers, Sequences, FiniteSets, TLC

VARIABLES
    mapping,        \* main.rs:144  name -> Package (read-only after Init)
    base,           \* main.rs:146  the bootstrap list
    body,           \* network: name -> the bytes the origin serves for it
    hang,           \* network: names whose request is never answered
    pc,             \* where main is: solve, topo, fetch, group, emit, done, failed
    err,            \* the error main returned with ("none" while running)
    graph,          \* main.rs:173  [nodes: Seq(name), edges: Seq(<<from, to>>)]
    processing,     \* main.rs:176  the current frontier
    next,           \* main.rs:178  the next frontier
    pi,             \* position of the for loop of main.rs:179 in processing
    expanded,       \* history: name -> how often main.rs:180-194 ran for it
    packages,       \* main.rs:200/211  the sequence handed to the pipeline
    cursor,         \* how many elements of packages the stream has yielded
    inflight,       \* slot -> the fetch future buffered in it
    started,        \* history: how many fetch futures were created
    finished,       \* history: how many fetch futures resolved to Ok
    arrived,        \* history: slot -> the chunks chunk() has handed to it
    results,        \* main.rs:212  HashedPackages in completion order
    files,          \* cache directory: file name -> bytes written
    source_buckets, \* main.rs:220  source name -> Seq(HashedPackage)
    gi,             \* position of the for loop of main.rs:221 in results
    emitted,        \* binary-conversion: source name -> the recipe written
    failedGroup     \* history: the bucket whose emission failed ("none" if none)

vars == <<mapping, base, body, hang, pc, err, graph, processing, next, pi,
          expanded, packages, cursor, inflight, started, finished, arrived, results, files,
          source_buckets, gi, emitted, failedGroup>>

(***************************************************************************)
(* Bounds of the model.                                                    *)
(***************************************************************************)
MaxEdges == 3        \* dependency entries in a catalog of the rich family
MaxQueued == 10      \* packages of the wide catalog (more than the limit)
MaxResponsive == 1   \* hosts that answer in the wide catalog
MaxBody == 2         \* bytes of the longest artifact

CONCURRENCY_LIMIT == 8

Names == 1..3
Sources == {"zlib", "nano"}
Extensions == <<3>>

Min(a, b) == IF a < b THEN a ELSE b

RECURSIVE SortedSeq(_)
SortedSeq(S) ==
    IF S = {} THEN <<>>
    ELSE LET x == CHOOSE y \in S : \A z \in S : y <= z
         IN  <<x>> \o SortedSeq(S \ {x})

Range(s) == {s[k] : k \in 1..Len(s)}

(***************************************************************************)
(* eopkg::index::Package, with the fields main and convert read.           *)
(***************************************************************************)
\* The descriptive texts of package n: index.rs:46-47 (summary, description),
\* 39 (source homepage, an Option: <<>> is None), 57 (licenses), 27-33 and 54 (the
\* version of the latest update).
SummaryOf(n) == IF n = 1 THEN "zlib" ELSE IF n = 2 THEN "zlib-devel" ELSE "nano"
DescriptionOf(n) ==
    IF n = 1 THEN <<"a", "\n", "b">> ELSE IF n = 2 THEN <<"b", "\n", "\n">> ELSE <<"c">>
HomepageOf(n) == IF n = 1 THEN <<"zlib.net">> ELSE IF n = 2 THEN <<>> ELSE <<"nano-editor.org">>
LicensesOf(n) == IF n = 1 THEN <<"Zlib">> ELSE IF n = 2 THEN <<"Zlib", "MIT">> ELSE <<"GPL-3.0">>
VersionOf(n) == IF n = 1 THEN "1.3" ELSE IF n = 2 THEN "1.3.1" ELSE "8.0"

Package(n, partOf, src, uri, deps) ==
    [name |-> n, part_of |-> partOf, source |-> src, package_uri |-> uri,
     run_deps |-> deps, summary |-> SummaryOf(n), description |-> DescriptionOf(n),
     homepage |-> HomepageOf(n), licenses |-> LicensesOf(n),
     history |-> <<VersionOf(n)>>]

\* main.rs:146-171: the names of system.base / system.devel in map order,
\* then the extensions.
BaseOf(m) ==
    SortedSeq({n \in DOMAIN m : m[n].part_of}) \o Extensions

(***************************************************************************)
(* Dag<String>                                                             *)
(***************************************************************************)
EmptyDag == [nodes |-> <<>>, edges |-> <<>>]

\* Dag::get_index: 0 stands for None.
GetIndex(g, n) ==
    IF \E k \in 1..Len(g.nodes) : g.nodes[k] = n
    THEN CHOOSE k \in 1..Len(g.nodes) :
            /\ g.nodes[k] = n
            /\ \A j \in 1..(k - 1) : g.nodes[j] # n
    ELSE 0

\* add_node without the lookup: every call appends a node.
AddNodeAlways(g, n) == [g EXCEPT !.nodes = Append(g.nodes, n)]

AddNodeOrGetIndex(g, n) ==
    IF GetIndex(g, n) # 0 THEN g
    ELSE [g EXCEPT !.nodes = Append(g.nodes, n)]

\* The indices a depth-first search from index b visits.
RECURSIVE DfsFrom(_, _)
DfsFrom(g, seen) ==
    LET more == {e[2] : e \in {x \in Range(g.edges) : x[1] \in seen}}
    IN  IF more \subseteq seen THEN seen ELSE DfsFrom(g, seen \cup more)

\* add_edge without the reachability test: only a duplicate is refused.
AddEdgeUnchecked(g, a, b) ==
    IF <<a, b>> \in Range(g.edges) THEN g
    ELSE [g EXCEPT !.edges = Append(g.edges, <<a, b>>)]

\* Dag::add_edge
AddEdge(g, a, b) ==
    IF a \in DfsFrom(g, {b}) THEN g
    ELSE IF <<a, b>> \in Range(g.edges) THEN g
    ELSE [g EXCEPT !.edges = Append(g.edges, <<a, b>>)]

NodeNames(g) == Range(g.nodes)
EdgeNames(g) == {<<g.nodes[e[1]], g.nodes[e[2]]>> : e \in Range(g.edges)}

(***************************************************************************)
(* The solve loop, main.rs:176-197.                                        *)
(***************************************************************************)
\* The dependency walk without next.push: a new child is never expanded.
RECURSIVE ExpandDepsNoPush(_, _, _, _, _)
ExpandDepsNoPush(g, nx, our, deps, k) ==
    IF k > Len(deps) THEN [graph |-> g, next |-> nx]
    ELSE LET dep == deps[k]
             g1  == AddNodeOrGetIndex(g, dep)
         IN  ExpandDepsNoPush(AddEdge(g1, our, GetIndex(g1, dep)), nx, our, deps, k + 1)

\* The dependency walk with next.push outside the else branch: a dependency
\* that is already a node is put on the next frontier again.
RECURSIVE ExpandDepsAlwaysPush(_, _, _, _, _)
ExpandDepsAlwaysPush(g, nx, our, deps, k) ==
    IF k > Len(deps) THEN [graph |-> g, next |-> nx]
    ELSE LET dep == deps[k]
             g1  == AddNodeOrGetIndex(g, dep)
         IN  ExpandDepsAlwaysPush(AddEdge(g1, our, GetIndex(g1, dep)),
                                  Append(nx, dep), our, deps, k + 1)

\* main.rs:183-193 for the dependencies deps[k..] of the node at index our.
RECURSIVE ExpandDeps(_, _, _, _, _)
ExpandDeps(g, nx, our, deps, k) ==
    IF k > Len(deps) THEN [graph |-> g, next |-> nx]
    ELSE LET dep == deps[k]
         IN  IF GetIndex(g, dep) # 0
             THEN ExpandDeps(AddEdge(g, our, GetIndex(g, dep)), nx, our, deps, k + 1)
             ELSE LET g1 == AddNodeOrGetIndex(g, dep)
                  IN  ExpandDeps(AddEdge(g1, our, GetIndex(g1, dep)),
                                 Append(nx, dep), our, deps, k + 1)

NoSlots == [k \in {} |-> k]

\* main returns with error e: its locals are dropped, the disk stays.
Abort(e, grp) ==
    /\ pc' = "failed"
    /\ err' = e
    /\ failedGroup' = grp
    /\ graph' = EmptyDag
    /\ processing' = <<>>
    /\ next' = <<>>
    /\ pi' = 1
    /\ packages' = <<>>
    /\ cursor' = 0
    /\ inflight' = NoSlots
    /\ results' = <<>>
    /\ source_buckets' = NoSlots
    /\ gi' = 1
    /\ UNCHANGED <<mapping, base, body, hang, expanded, started, finished, arrived, files,
                   emitted>>

\* main.rs:180 with `?` replaced by skipping the name.
SolveStepSkip ==
    /\ pc = "solve"
    /\ pi <= Len(processing)
    /\ LET pkg == processing[pi]
       IN  IF pkg \notin DOMAIN mapping
           THEN /\ pi' = pi + 1
                /\ UNCHANGED <<mapping, base, body, hang, pc, err, graph,
                               processing, next, expanded, packages, cursor,
                               inflight, started, finished, arrived, results, files,
                               source_buckets, gi, emitted, failedGroup>>
           ELSE LET g1 == AddNodeOrGetIndex(graph, mapping[pkg].name)
                    r  == ExpandDeps(g1, next, GetIndex(g1, mapping[pkg].name),
                                     mapping[pkg].run_deps, 1)
                IN  /\ graph' = r.graph
                    /\ next' = r.next
                    /\ pi' = pi + 1
                    /\ expanded' = [expanded EXCEPT ![pkg] = @ + 1]
                    /\ UNCHANGED <<mapping, base, body, hang, pc, err, processing,
                                   packages, cursor, inflight, started, finished, arrived,
                                   results, files, source_buckets, gi, emitted,
                                   failedGroup>>

\* One iteration of the for loop, main.rs:179-195.
SolveStep ==
    /\ pc = "solve"
    /\ pi <= Len(processing)
    /\ LET pkg == processing[pi]
       IN  IF pkg \notin DOMAIN mapping
           THEN Abort("UnknownPackage", failedGroup)
           ELSE LET g1 == AddNodeOrGetIndex(graph, mapping[pkg].name)
                    r  == ExpandDeps(g1, next, GetIndex(g1, mapping[pkg].name),
                                     mapping[pkg].run_deps, 1)
                IN  /\ graph' = r.graph
                    /\ next' = r.next
                    /\ pi' = pi + 1
                    /\ expanded' = [expanded EXCEPT ![pkg] = @ + 1]
                    /\ UNCHANGED <<mapping, base, body, hang, pc, err, processing,
                                   packages, cursor, inflight, started, finished, arrived,
                                   results, files, source_buckets, gi, emitted,
                                   failedGroup>>

\* main.rs:196-197: the round is over and the next frontier is not empty.
NextRound ==
    /\ pc = "solve"
    /\ pi > Len(processing)
    /\ next # <<>>
    /\ processing' = next
    /\ next' = <<>>
    /\ pi' = 1
    /\ UNCHANGED <<mapping, base, body, hang, pc, err, graph, expanded, packages,
                   cursor, inflight, started, finished, arrived, results, files,
                   source_buckets, gi, emitted, failedGroup>>

\* main.rs:177: the frontier is empty, the loop ends.
SolveDone ==
    /\ pc = "solve"
    /\ pi > Len(processing)
    /\ next = <<>>
    /\ pc' = "topo"
    /\ processing' = <<>>
    /\ pi' = 1
    /\ UNCHANGED <<mapping, base, body, hang, err, graph, next, expanded, packages,
                   cursor, inflight, started, finished, arrived, results, files,
                   source_buckets, gi, emitted, failedGroup>>

(***************************************************************************)
(* graph.topo(), main.rs:200: petgraph's Topo over the node indices.       *)
(***************************************************************************)
Incoming(g, n) == {e[1] : e \in {x \in Range(g.edges) : x[2] = n}}

\* neighbors(n): the targets of n's edges, the newest edge first.
RECURSIVE Neighbors(_, _, _)
Neighbors(g, n, k) ==
    IF k = 0 THEN <<>>
    ELSE IF g.edges[k][1] = n
         THEN <<g.edges[k][2]>> \o Neighbors(g, n, k - 1)
         ELSE Neighbors(g, n, k - 1)

RECURSIVE Initials(_, _)
Initials(g, k) ==
    IF k > Len(g.nodes) THEN <<>>
    ELSE IF Incoming(g, k) = {}
         THEN <<k>> \o Initials(g, k + 1)
         ELSE Initials(g, k + 1)

RECURSIVE PushReady(_, _, _, _, _)
PushReady(g, tovisit, neighs, j, ordered) ==
    IF j > Len(neighs) THEN tovisit
    ELSE IF Incoming(g, neighs[j]) \subseteq Range(ordered)
         THEN PushReady(g, Append(tovisit, neighs[j]), neighs, j + 1, ordered)
         ELSE PushReady(g, tovisit, neighs, j + 1, ordered)

RECURSIVE TopoWalk(_, _, _)
TopoWalk(g, tovisit, ordered) ==
    IF tovisit = <<>> THEN ordered
    ELSE LET nix  == tovisit[Len(tovisit)]
             rest == SubSeq(tovisit, 1, Len(tovisit) - 1)
         IN  IF nix \in Range(ordered) THEN TopoWalk(g, rest, ordered)
             ELSE LET ord1 == Append(ordered, nix)
                  IN  TopoWalk(g,
                               PushReady(g, rest, Neighbors(g, nix, Len(g.edges)), 1, ord1),
                               ord1)

Topo(g) ==
    LET order == TopoWalk(g, Initials(g, 1), <<>>)
    IN  [k \in 1..Len(order) |-> g.nodes[order[k]]]

\* main.rs:199-211: the sequence is taken from the graph.
Sequence ==
    /\ pc = "topo"
    /\ packages' = Topo(graph)
    /\ cursor' = 0
    /\ pc' = "fetch"
    /\ UNCHANGED <<mapping, base, body, hang, err, graph, processing, next, pi,
                   expanded, inflight, started, finished, arrived, results, files,
                   source_buckets, gi, emitted, failedGroup>>

(***************************************************************************)
(* The pipeline, main.rs:211-217:                                          *)
(*   stream::iter(fetch futures).buffer_unordered(CONCURRENCY_LIMIT)       *)
(*       .try_collect().await?                                             *)
(* A slot is the position in packages of the name a future fetches.        *)
(***************************************************************************)
Put(f, k, v) == [x \in DOMAIN f \cup {k} |-> IF x = k THEN v ELSE f[x]]
Drop(f, k) == [x \in DOMAIN f \ {k} |-> f[x]]

\* Sha256: the hasher holds what it was fed, the digest stands for exactly
\* that byte sequence.
HasherNew == <<>>
\* A hasher that keeps only the last chunk.
HasherReset(h, chunk) == chunk
HasherUpdate(h, chunk) == h \o chunk
Sha256(bytes) == [sha256 |-> bytes]

\* main.rs:67-73: the last path segment of the joined URI.
LastSegment(uri) == uri[Len(uri)]

\* A buffer that admits one future more than the limit.
HasRoomOffByOne == Cardinality(DOMAIN inflight) <= CONCURRENCY_LIMIT
\* buffer_unordered polls the stream only while fewer than the limit are buffered.
HasRoom == Cardinality(DOMAIN inflight) < CONCURRENCY_LIMIT

\* The buffer is filled before the buffered futures are polled.
Filled == ~(cursor < Len(packages) /\ HasRoom)

\* The stream yields its next element: filter_map (main.rs:211) drops a name
\* the catalog does not hold, any other becomes a buffered fetch future, which
\* runs to its first await (main.rs:74).
Dispatch ==
    /\ pc = "fetch"
    /\ cursor < Len(packages)
    /\ HasRoom
    /\ cursor' = cursor + 1
    /\ LET s == cursor + 1
           p == packages[s]
       IN  IF p \notin DOMAIN mapping
           THEN UNCHANGED <<inflight, started, finished, arrived>>
           ELSE /\ inflight' = Put(inflight, s,
                        [name |-> p, at |-> "get",
                         path |-> LastSegment(mapping[p].package_uri),
                         hasher |-> HasherNew])
                /\ started' = started + 1
                /\ finished' = finished
                /\ arrived' = Put(arrived, s, <<>>)
    /\ UNCHANGED <<mapping, base, body, hang, pc, err, graph, processing, next, pi,
                   expanded, packages, results, files, source_buckets, gi, emitted,
                   failedGroup>>

\* A fetch resolved to Err: a try_collect that drops the future and goes on.
TryCollectErrKeepGoing(s, e) ==
    /\ inflight' = Drop(inflight, s)
    /\ err' = e
    /\ UNCHANGED <<mapping, base, body, hang, pc, graph, processing, next, pi,
                   expanded, packages, cursor, started, finished, arrived, results, files,
                   source_buckets, gi, emitted, failedGroup>>

\* A fetch resolved to Err(e): try_collect returns it at once and `?`
\* (main.rs:217) returns from main; the stream and its futures are dropped.
TryCollectErr(s, e) == Abort(e, failedGroup)

\* main.rs:74: the request fails.
FetchGetErr ==
    \E s \in DOMAIN inflight :
        /\ pc = "fetch" /\ Filled
        /\ inflight[s].at = "get"
        /\ inflight[s].name \notin hang
        /\ TryCollectErr(s, "Reqwest")

\* main.rs:74-89: the response arrives, the destination file is created.
FetchGetOk ==
    \E s \in DOMAIN inflight :
        /\ pc = "fetch" /\ Filled
        /\ inflight[s].at = "get"
        /\ inflight[s].name \notin hang
        /\ inflight' = [inflight EXCEPT ![s].at = "chunk"]
        /\ files' = Put(files, inflight[s].path, <<>>)
        /\ UNCHANGED <<mapping, base, body, hang, pc, err, graph, processing, next, pi,
                       expanded, packages, cursor, started, finished, arrived, results,
                       source_buckets, gi, emitted, failedGroup>>

\* main.rs:87: File::create fails and unwrap panics.
FetchCreatePanic ==
    \E s \in DOMAIN inflight :
        /\ pc = "fetch" /\ Filled
        /\ inflight[s].at = "get"
        /\ inflight[s].name \notin hang
        /\ Abort("panic", failedGroup)

RECURSIVE Concat(_)
Concat(chunks) ==
    IF chunks = <<>> THEN <<>> ELSE chunks[1] \o Concat(Tail(chunks))

\* What the origin has still to send to the fetch in slot s.
Remaining(s) ==
    SubSeq(body[inflight[s].name], Len(Concat(arrived[s])) + 1,
           Len(body[inflight[s].name]))

\* main.rs:89-95: chunk() yields the next n bytes; they go to the file and
\* to the hasher.
\* main.rs:92: a write of chunk at position off of a file holding content;
\* bytes the file never received between its end and off read as 0.
WriteAt(content, off, chunk) ==
    LET end == off + Len(chunk)
        len == IF Len(content) > end THEN Len(content) ELSE end
    IN  [k \in 1..len |->
            IF k > off /\ k <= end THEN chunk[k - off]
            ELSE IF k <= Len(content) THEN content[k] ELSE 0]

FetchChunkSome ==
    \E s \in DOMAIN inflight :
        /\ pc = "fetch" /\ Filled
        /\ inflight[s].at = "chunk"
        /\ \E n \in 1..Len(Remaining(s)) :
              LET chunk == SubSeq(Remaining(s), 1, n)
              IN  /\ arrived' = [arrived EXCEPT ![s] = Append(@, chunk)]
                  /\ files' = [files EXCEPT ![inflight[s].path] =
                                    WriteAt(@, Len(Concat(arrived[s])), chunk)]
                  /\ inflight' = [inflight EXCEPT
                                    ![s].hasher = HasherUpdate(@, chunk)]
        /\ UNCHANGED <<mapping, base, body, hang, pc, err, graph, processing, next, pi,
                       expanded, packages, cursor, started, finished, results, source_buckets,
                       gi, emitted, failedGroup>>

\* main.rs:89: chunk() fails.
FetchChunkErr ==
    \E s \in DOMAIN inflight :
        /\ pc = "fetch" /\ Filled
        /\ inflight[s].at = "chunk"
        /\ TryCollectErr(s, "Reqwest")

\* main.rs:92: a chunk arrived and io::copy fails.
FetchWriteErr ==
    \E s \in DOMAIN inflight :
        /\ pc = "fetch" /\ Filled
        /\ inflight[s].at = "chunk"
        /\ Remaining(s) # <<>>
        /\ TryCollectErr(s, "IO")

\* main.rs:89,96-104: the stream is drained; the fetch resolves to
\* Ok(HashedPackage) and try_collect appends it.
FetchChunkNone ==
    \E s \in DOMAIN inflight :
        /\ pc = "fetch" /\ Filled
        /\ inflight[s].at = "chunk"
        /\ Remaining(s) = <<>>
        /\ results' = Append(results,
                             [package |-> mapping[inflight[s].name],
                              hash |-> Sha256(inflight[s].hasher)])
        /\ inflight' = Drop(inflight, s)
        /\ finished' = finished + 1
        /\ UNCHANGED <<mapping, base, body, hang, pc, err, graph, processing, next, pi,
                       expanded, packages, cursor, started, arrived, files,
                       source_buckets, gi, emitted, failedGroup>>

\* A collection that returns once every name was taken from the stream,
\* without waiting for the fetches still buffered.
PipelineDoneEarly ==
    /\ pc = "fetch"
    /\ cursor = Len(packages)
    /\ pc' = "group"
    /\ gi' = 1
    /\ UNCHANGED <<mapping, base, body, hang, err, graph, processing, next, pi,
                   expanded, packages, cursor, inflight, started, finished, arrived, results,
                   files, source_buckets, emitted, failedGroup>>

\* The stream is exhausted and nothing is buffered: try_collect returns Ok.
PipelineDone ==
    /\ pc = "fetch"
    /\ cursor = Len(packages)
    /\ DOMAIN inflight = {}
    /\ pc' = "group"
    /\ gi' = 1
    /\ UNCHANGED <<mapping, base, body, hang, err, graph, processing, next, pi,
                   expanded, packages, cursor, inflight, started, finished, arrived, results,
                   files, source_buckets, emitted, failedGroup>>

(***************************************************************************)
(* Source buckets, main.rs:219-228.                                        *)
(***************************************************************************)
\* An insert that overwrites the bucket instead of pushing onto it.
BucketInsertReplace(buckets, result) ==
    Put(buckets, result.package.source, <<result>>)

\* An insert that creates the bucket of a new source empty and pushes onto
\* existing buckets only.
BucketInsertEmpty(buckets, result) ==
    LET source_name == result.package.source
    IN  IF source_name \in DOMAIN buckets
        THEN [buckets EXCEPT ![source_name] = Append(@, result)]
        ELSE Put(buckets, source_name, <<>>)

\* main.rs:222-227
BucketInsert(buckets, result) ==
    LET source_name == result.package.source
    IN  IF source_name \in DOMAIN buckets
        THEN [buckets EXCEPT ![source_name] = Append(@, result)]
        ELSE Put(buckets, source_name, <<result>>)

\* One iteration of the for loop, main.rs:221-228.
GroupStep ==
    /\ pc = "group"
    /\ gi <= Len(results)
    /\ source_buckets' = BucketInsert(source_buckets, results[gi])
    /\ gi' = gi + 1
    /\ UNCHANGED <<mapping, base, body, hang, pc, err, graph, processing, next, pi,
                   expanded, packages, cursor, inflight, started, finished, arrived, results,
                   files, emitted, failedGroup>>

\* main.rs:230-234: the loop is over, the output directory is made anew.
GroupDone ==
    /\ pc = "group"
    /\ gi > Len(results)
    /\ pc' = "emit"
    /\ UNCHANGED <<mapping, base, body, hang, err, graph, processing, next, pi,
                   expanded, packages, cursor, inflight, started, finished, arrived, results,
                   files, source_buckets, gi, emitted, failedGroup>>

(***************************************************************************)
(* Recipe emission, main.rs:236-245 and converter.rs.                      *)
(***************************************************************************)
\* The unpack steps in the reverse order of the group.
GenerateInstallScriptReversed(input) ==
    [k \in 1..Len(input) |->
        LastSegment(input[Len(input) + 1 - k].package.package_uri)]

\* converter.rs:65-79: one unpack step per package, naming its file.
GenerateInstallScript(input) ==
    [k \in 1..Len(input) |-> LastSegment(input[k].package.package_uri)]

\* converter.rs:56: description.replace('\n', " ")
ReplaceNewlines(text) ==
    [k \in 1..Len(text) |-> IF text[k] = "\n" THEN " " ELSE text[k]]

\* converter.rs:31: const_hex::encode of the digest.
HexEncode(hash) == [hex |-> hash.sha256]

\* converter.rs:24-63
Convert(input) ==
    IF input = <<>> THEN [ok |-> FALSE, err |-> "NoPackage"]
    ELSE LET sample == input[1].package
         IN  [ok |-> TRUE,
              name |-> sample.source,
              version |-> sample.history[1],
              homepage |-> IF sample.homepage = <<>> THEN "no-homepage-set"
                           ELSE sample.homepage[1],
              upstreams |-> [k \in 1..Len(input) |->
                                <<input[k].package.package_uri, HexEncode(input[k].hash)>>],
              summary |-> sample.summary,
              description |-> ReplaceNewlines(sample.description),
              license |-> sample.licenses,
              install |-> GenerateInstallScript(input)]

\* A loop that notes the error and goes on with the other buckets.
EmitErrContinue(source, e) ==
    /\ emitted' = Put(emitted, source, [ok |-> FALSE, err |-> e])
    /\ err' = e
    /\ failedGroup' = source
    /\ UNCHANGED <<mapping, base, body, hang, pc, graph, processing, next, pi,
                   expanded, packages, cursor, inflight, started, finished, arrived, results,
                   files, source_buckets, gi>>

\* main.rs:239-243: `?` returns from main with the error.
EmitErr(source, e) == Abort(e, source)

\* One iteration of the for loop, main.rs:237-244, for a bucket the
\* HashMap iterator has not yet yielded.
EmitStep ==
    \E source \in DOMAIN source_buckets :
        /\ pc = "emit"
        /\ source \in DOMAIN source_buckets \ DOMAIN emitted
        /\ LET yml == Convert(source_buckets[source])
           IN  IF ~yml.ok
               THEN EmitErr(source, yml.err)
               ELSE /\ emitted' = Put(emitted, source, yml)
                    /\ UNCHANGED <<mapping, base, body, hang, pc, err, graph,
                                   processing, next, pi, expanded, packages, cursor,
                                   inflight, started, finished, arrived, results, files,
                                   source_buckets, gi, failedGroup>>

\* main.rs:239,242,243: create_dir, File::create or write_all fails.
EmitIOErr ==
    \E source \in DOMAIN source_buckets :
        /\ pc = "emit"
        /\ source \in DOMAIN source_buckets \ DOMAIN emitted
        /\ EmitErr(source, "IO")

\* main.rs:245
EmitDone ==
    /\ pc = "emit"
    /\ DOMAIN source_buckets \subseteq DOMAIN emitted
    /\ pc' = "done"
    /\ UNCHANGED <<mapping, base, body, hang, err, graph, processing, next, pi,
                   expanded, packages, cursor, inflight, started, finished, arrived, results,
                   files, source_buckets, gi, emitted, failedGroup>>

(***************************************************************************)
(* Initial states: a catalog, the network behind it, and main at the       *)
(* solve loop (main.rs:176).                                               *)
(***************************************************************************)
SourceOf(n) == IF n = 3 THEN "nano" ELSE "zlib"
UriOf(n) == <<0, n>>
BodyOf(n) == [k \in 1..Min(n - 1, MaxBody) |-> k]

\* Dependency entries <<package, dependency>>, grouped by package.
EdgeLists(keys) ==
    {el \in UNION {[1..k -> keys \X Names] : k \in 0..MaxEdges} :
        \A k \in 1..(Len(el) - 1) : el[k][1] <= el[k + 1][1]}

DepsOf(el, n) ==
    LET own == SelectSeq(el, LAMBDA e : e[1] = n)
    IN  [k \in 1..Len(own) |-> own[k][2]]

Start(m, b, h) ==
    /\ mapping = m
    /\ base = BaseOf(m)
    /\ body = b
    /\ hang = h
    /\ pc = "solve"
    /\ err = "none"
    /\ graph = EmptyDag
    /\ processing = BaseOf(m)
    /\ next = <<>>
    /\ pi = 1
    /\ expanded = [n \in DOMAIN m |-> 0]
    /\ packages = <<>>
    /\ cursor = 0
    /\ inflight = NoSlots
    /\ started = 0
    /\ finished = 0
    /\ arrived = NoSlots
    /\ results = <<>>
    /\ files = NoSlots
    /\ source_buckets = NoSlots
    /\ gi = 1
    /\ emitted = NoSlots
    /\ failedGroup = "none"

\* Any dependency data over three names, some of them possibly absent from
\* the catalog; the origin answers no request.
InitRich ==
    \E keys \in SUBSET Names :
      \E flagged \in SUBSET keys :
        \E el \in EdgeLists(keys) :
          Start([n \in keys |->
                    Package(n, n \in flagged, SourceOf(n), UriOf(n), DepsOf(el, n))],
                [n \in keys |-> BodyOf(n)],
                keys)

\* Three independent packages of system.base with any source names; the
\* origin answers every request.
InitFlat ==
    \E src \in [Names -> Sources] :
      Start([n \in Names |-> Package(n, TRUE, src[n], UriOf(n), <<>>)],
            [n \in Names |-> BodyOf(n)],
            {})

\* More independent packages than the concurrency limit; few hosts answer.
InitWide ==
    \E answering \in SUBSET (1..MaxQueued) :
      /\ Cardinality(answering) <= MaxResponsive
      /\ Start([n \in 1..MaxQueued |->
                    Package(n, TRUE, SourceOf(n), UriOf(n), <<>>)],
               [n \in 1..MaxQueued |-> BodyOf(n)],
               (1..MaxQueued) \ answering)

Init == InitRich \/ InitFlat \/ InitWide

\* An application and its two libraries, found through its dependencies; the
\* URIs are distinct and end in any file names; the origin answers.
InitShared ==
    \E file \in [Names -> Names] :
      Start([n \in Names |->
                Package(n, FALSE, SourceOf(n), <<n, file[n]>>,
                        IF n = 3 THEN <<1, 2>> ELSE <<>>)],
            [n \in Names |-> [k \in 1..MaxBody |-> n]],
            {})

Next ==
    \/ SolveStep
    \/ NextRound
    \/ SolveDone
    \/ Sequence
    \/ Dispatch
    \/ FetchGetErr
    \/ FetchGetOk
    \/ FetchCreatePanic
    \/ FetchChunkSome
    \/ FetchChunkErr
    \/ FetchWriteErr
    \/ FetchChunkNone
    \/ PipelineDone
    \/ GroupStep
    \/ GroupDone
    \/ EmitStep
    \/ EmitIOErr
    \/ EmitDone

Spec == Init /\ [][Next]_vars

\* The same program on catalogs whose URIs may end in the same file name.
SpecShared == InitShared /\ [][Next]_vars

\* What the pipeline does when nothing fails: the stream hands out the next
\* future, a response or a chunk arrives, a body ends, the collection returns.
FetchProgress ==
    \/ Dispatch
    \/ FetchGetOk
    \/ FetchChunkSome
    \/ FetchChunkNone
    \/ PipelineDone

\* The runtime keeps polling the pipeline while it can progress.
FairSpec == Init /\ [][Next]_vars /\ WF_vars(FetchProgress)

(***************************************************************************)
(* Vocabulary of the properties.                                           *)
(***************************************************************************)
\* The names reachable from S through the dependency lists of the catalog.
RECURSIVE Closure(_)
Closure(S) ==
    LET more == UNION {Range(mapping[n].run_deps) : n \in S \cap DOMAIN mapping}
    IN  IF more \subseteq S THEN S ELSE Closure(S \cup more)

Reach == Closure(Range(base))
AllKnown == Reach \subseteq DOMAIN mapping

RECURSIVE SumOver(_, _)
SumOver(f, S) ==
    IF S = {} THEN 0
    ELSE LET x == CHOOSE y \in S : TRUE IN f[x] + SumOver(f, S \ {x})

Expansions == SumOver(expanded, DOMAIN expanded)
Solved == pc \in {"topo", "fetch", "group", "emit", "done"}
Sequenced == pc \in {"fetch", "group", "emit", "done"}
FetchErrors == {"Reqwest", "IO"}

\* C1: when every name of the bootstrap list and every name reachable from it
\* is in the catalog, the solve loop does not fail, runs at most one expansion
\* per bootstrap entry and reachable name, never holds a name in two nodes, and
\* ends with exactly the reachable names as nodes.
C1_ClosureCorrect ==
    AllKnown =>
        /\ err # "UnknownPackage"
        /\ Expansions <= Len(base) + Cardinality(Reach)
        /\ Len(graph.nodes) = Cardinality(NodeNames(graph))
        /\ NodeNames(graph) \subseteq Reach
        /\ Solved => NodeNames(graph) = Reach

\* The loop has ended on a bootstrap list that names a package twice, with
\* all three names reached, two of them only through dependencies.
C1_Witness ==
    /\ pc = "topo"
    /\ AllKnown
    /\ base = <<3, 3>>
    /\ NodeNames(graph) = Names

\* C2: the fetches started and not yet finished never exceed the limit.
C2_BoundedInFlight ==
    /\ Cardinality(DOMAIN inflight) <= CONCURRENCY_LIMIT
    /\ pc = "fetch" => started - finished = Cardinality(DOMAIN inflight)

\* The buffer is full while a name still waits in the stream, after an
\* earlier fetch has finished and freed its slot.
C2_Witness ==
    /\ Cardinality(DOMAIN inflight) = CONCURRENCY_LIMIT
    /\ cursor < Len(packages)
    /\ finished > 0

C4_UnknownAborts ==
    /\ ~AllKnown =>
          /\ pc \in {"solve", "failed"}
          /\ pc = "failed" => err = "UnknownPackage"
          /\ Expansions <= Len(base) + Cardinality(Reach)
    /\ err = "UnknownPackage" =>
          /\ pc = "failed"
          /\ ~AllKnown
          /\ graph = EmptyDag
          /\ packages = <<>>
          /\ started = 0
          /\ DOMAIN files = {}
          /\ DOMAIN source_buckets = {}
          /\ DOMAIN emitted = {}

\* The run failed on a dependency found during the expansion of a bootstrap
\* name that is itself in the catalog.
C4_Witness ==
    /\ err = "UnknownPackage"
    /\ Range(base) \subseteq DOMAIN mapping
    /\ Expansions >= 2

\* Package 3 is the whole bootstrap list and forms a dependency cycle with b.
IsCycle(b) ==
    /\ b # 3
    /\ {3, b} \subseteq DOMAIN mapping
    /\ base = <<3>>
    /\ mapping[3].run_deps = <<b>>
    /\ mapping[b].run_deps = <<3>>

C6_Permutation ==
    Sequenced =>
        /\ Len(packages) = Len(graph.nodes)
        /\ Range(packages) = NodeNames(graph)
        /\ Cardinality(Range(packages)) = Len(packages)

\* A sequence of three names from a catalog in which two packages depend on
\* each other and the third node has no edge.
C6_Witness ==
    /\ pc = "fetch"
    /\ Len(packages) = 3
    /\ \E a, b \in DOMAIN mapping :
          /\ a # b
          /\ b \in Range(mapping[a].run_deps)
          /\ a \in Range(mapping[b].run_deps)
    /\ \E k \in 1..Len(graph.nodes) :
          \A e \in Range(graph.edges) : e[1] # k /\ e[2] # k

\* The results the grouping loop has gone through.
Grouped ==
    IF pc = "group" THEN SubSeq(results, 1, gi - 1)
    ELSE IF pc \in {"emit", "done"} THEN results
    ELSE <<>>

Occurrences(r, s) == Cardinality({k \in 1..Len(s) : s[k] = r})

\* C7: the buckets partition the grouped artifacts by source name: each
\* artifact is once in the bucket of its source and in no other, the buckets
\* are the source names that occur, and no bucket is empty.
C7_Partition ==
    pc \in {"group", "emit", "done"} =>
        /\ DOMAIN source_buckets = {Grouped[k].package.source : k \in 1..Len(Grouped)}
        /\ \A s \in DOMAIN source_buckets :
              /\ source_buckets[s] # <<>>
              /\ \A k \in 1..Len(source_buckets[s]) :
                    source_buckets[s][k].package.source = s
        /\ \A k \in 1..Len(Grouped) :
              \A s \in DOMAIN source_buckets :
                  Occurrences(Grouped[k], source_buckets[s]) =
                      IF s = Grouped[k].package.source THEN 1 ELSE 0
        /\ SumOver([s \in DOMAIN source_buckets |-> Len(source_buckets[s])],
                   DOMAIN source_buckets) = Len(Grouped)

\* Artifacts of sources zlib, zlib and nano are grouped: two buckets, of
\* two and of one.
C7_Witness ==
    /\ pc = "emit"
    /\ Len(results) = 3
    /\ DOMAIN source_buckets = {"zlib", "nano"}
    /\ Len(source_buckets["zlib"]) = 2
    /\ Len(source_buckets["nano"]) = 1

\* The slot that fetched result r.
SlotOf(r) == CHOOSE s \in DOMAIN arrived : packages[s] = r.package.name

\* C8: the hash of every returned artifact is the hash of its chunks
\* concatenated in arrival order, and its file holds exactly those bytes;
\* until then the file and the hasher of a running fetch hold what arrived.
C8_HashOfStream ==
    /\ \A k \in 1..Len(results) :
          /\ \E s \in DOMAIN arrived : packages[s] = results[k].package.name
          /\ results[k].hash = Sha256(Concat(arrived[SlotOf(results[k])]))
          /\ files[LastSegment(results[k].package.package_uri)] =
                Concat(arrived[SlotOf(results[k])])
    /\ \A s \in DOMAIN inflight :
          inflight[s].at = "chunk" =>
              /\ inflight[s].hasher = Concat(arrived[s])
              /\ files[inflight[s].path] = Concat(arrived[s])

\* An artifact that arrived in two chunks was returned.
C8_Witness ==
    \E k \in 1..Len(results) :
        /\ Len(arrived[SlotOf(results[k])]) = 2
        /\ results[k].hash = Sha256(body[results[k].package.name])

\* The source names of the packages the run fetches.
GroupNames == {mapping[n].source : n \in Reach \cap DOMAIN mapping}

C10_Original ==
    /\ Range(next) \subseteq NodeNames(graph)
    /\ Cardinality(Range(next)) = Len(next)
    /\ \A n \in DOMAIN expanded : expanded[n] <= 1

\* Package 3 is the whole bootstrap list and its only dependency is itself.
SelfOnly ==
    /\ 3 \in DOMAIN mapping
    /\ base = <<3>>
    /\ mapping[3].run_deps = <<3>>

Pushed == SubSeq(next', Len(next) + 1, Len(next'))

C12_NodesInCatalog ==
    /\ Solved => NodeNames(graph) \subseteq DOMAIN mapping
    /\ Sequenced => Range(packages) \subseteq DOMAIN mapping
    /\ pc = "fetch" => started = cursor
    /\ pc \in {"group", "emit", "done"} => started = Len(packages)

\* All three names were dispatched, two of them nodes only because they are
\* dependencies.
C12_Witness ==
    /\ pc = "fetch"
    /\ base = <<3>>
    /\ Len(packages) = 3
    /\ cursor = 3
    /\ started = 3

\* C13: a name is held by one node; while the graph lives a node keeps the
\* name it was created with (an index, once assigned, stays); every edge
\* joins indices of existing nodes, in the step that adds it and ever after.
C13_StableIndices ==
    /\ [](/\ Len(graph.nodes) = Cardinality(NodeNames(graph))
          /\ \A n \in NodeNames(graph) :
                Cardinality({k \in 1..Len(graph.nodes) : graph.nodes[k] = n}) = 1
          /\ \A e \in Range(graph.edges) :
                /\ e[1] \in 1..Len(graph.nodes)
                /\ e[2] \in 1..Len(graph.nodes))
    /\ [][pc' # "failed" =>
            /\ Len(graph'.nodes) >= Len(graph.nodes)
            /\ \A k \in 1..Len(graph.nodes) :
                  /\ graph'.nodes[k] = graph.nodes[k]
                  /\ GetIndex(graph', graph.nodes[k]) = k
            /\ \A k \in 1..Len(graph.edges) : graph'.edges[k] = graph.edges[k]]_vars

\* The loop is still running on a graph of three nodes and two edges.
C13_Witness ==
    /\ pc = "solve"
    /\ pi <= Len(processing)
    /\ Len(graph.nodes) = 3
    /\ Len(graph.edges) >= 2

\* The artifact a complete fetch of package n yields.
ArtifactOf(n) == [package |-> mapping[n], hash |-> Sha256(body[n])]

\* C15: the artifacts collected are those of names of the sequence, none
\* twice, each determined by the catalog and the body served for its name
\* alone; when collection has returned Ok there is exactly one for every
\* name, whatever the completion order was. If every request is answered,
\* the pipeline ends under fair scheduling: with that result, or with the
\* error of a fetch that failed.
C15_AllFetched ==
    /\ [](pc \in {"fetch", "group", "emit", "done"} =>
            /\ \A k \in 1..Len(results) :
                  /\ results[k].package.name \in Range(packages)
                  /\ results[k] = ArtifactOf(results[k].package.name)
                  /\ \A j \in 1..Len(results) :
                        results[j].package.name = results[k].package.name => j = k)
    /\ [](pc \in {"group", "emit", "done"} =>
            /\ Len(results) = Len(packages)
            /\ Range(results) = {ArtifactOf(n) : n \in Range(packages)})
    /\ (pc = "fetch" /\ hang = {}) ~> (pc \in {"group", "failed"})

\* All three fetches succeeded, and the first to complete was not the first
\* of the sequence.
C15_Witness ==
    /\ pc = "group"
    /\ hang = {}
    /\ Len(results) = 3
    /\ results[1].package.name # packages[1]

\* The names of source src in the order of the input sequence.
InputOrder(src) == SelectSeq(packages, LAMBDA n : mapping[n].source = src)

\* C16 as stated: the order inside each source group, and with it the
\* recipe, is fixed by the catalog and the sequence, not by the order in
\* which the fetches complete. The run in which the fetches complete in
\* sequence order is one of the runs, so a fixed order is the sequence order.
C16_Original ==
    /\ pc \in {"emit", "done"} =>
          \A src \in DOMAIN source_buckets :
              [k \in 1..Len(source_buckets[src]) |->
                  source_buckets[src][k].package.name] = InputOrder(src)
    /\ pc = "done" =>
          \A src \in DOMAIN emitted :
              emitted[src] =
                  Convert([k \in 1..Len(InputOrder(src)) |->
                              ArtifactOf(InputOrder(src)[k])])

\* C17: convert answers NoPackage to an empty group and to no other; every
\* bucket holds at least the artifact it was created with, so the emission
\* loop never meets that error.
C17_NoPackageUnreachable ==
    /\ Convert(<<>>) = [ok |-> FALSE, err |-> "NoPackage"]
    /\ \A src \in DOMAIN source_buckets :
          /\ source_buckets[src] # <<>>
          /\ Convert(source_buckets[src]).ok
    /\ \A src \in DOMAIN emitted : emitted[src].ok
    /\ err # "NoPackage"

\* Two groups were converted and written.
C17_Witness ==
    /\ pc = "done"
    /\ Cardinality(DOMAIN emitted) = 2
    /\ \A src \in DOMAIN emitted : emitted[src].ok

\* C18: the recipe of a group of n artifacts has n upstream entries, the
\* i-th made of the i-th artifact's URI and the hex form of its own hash,
\* and n unpack steps, the i-th naming the i-th artifact's file; name,
\* version, homepage, summary, description and licenses come from the first
\* artifact (the name is its source name, an absent homepage is written as
\* no-homepage-set, newlines of the description are written as spaces).
C18_RecipeParameters ==
    pc \in {"emit", "done"} =>
        \A src \in DOMAIN emitted :
            LET group == source_buckets[src]
                yml   == emitted[src]
                first == group[1].package
            IN  /\ Len(yml.upstreams) = Len(group)
                /\ Len(yml.install) = Len(group)
                /\ \A i \in 1..Len(group) :
                      /\ yml.upstreams[i][1] = group[i].package.package_uri
                      /\ yml.upstreams[i][2].hex = body[group[i].package.name]
                      /\ yml.install[i] = group[i].package.package_uri[2]
                /\ yml.name = first.source
                /\ yml.name = src
                /\ yml.version = first.history[1]
                /\ yml.summary = first.summary
                /\ yml.license = first.licenses
                /\ IF first.homepage = <<>> THEN yml.homepage = "no-homepage-set"
                   ELSE yml.homepage = first.homepage[1]
                /\ Len(yml.description) = Len(first.description)
                /\ \A k \in 1..Len(first.description) :
                      IF first.description[k] = "\n" THEN yml.description[k] = " "
                      ELSE yml.description[k] = first.description[k]

\* The recipe of a group of three was written, and its first artifact is
\* not the first of the sequence.
C18_Witness ==
    /\ pc = "done"
    /\ \E src \in DOMAIN emitted :
          /\ Len(source_buckets[src]) = 3
          /\ source_buckets[src][1].package.name # packages[1]
          /\ "\n" \in Range(source_buckets[src][1].package.description)

\* The file the fetch of slot s writes, and the fetches that have created
\* their file.
PathOf(s) == LastSegment(mapping[packages[s]].package_uri)
Created ==
    {s \in DOMAIN arrived : s \notin DOMAIN inflight \/ inflight[s].at = "chunk"}

\* C14 as stated: an artifact exists only for a fetch whose stream was read
\* to its end, and the file of every artifact holds the whole body, never a
\* part of it.
C14_Original ==
    pc \in {"fetch", "group", "emit", "done"} =>
        /\ finished = Len(results)
        /\ \A k \in 1..Len(results) :
              LET r == results[k]
              IN  /\ Concat(arrived[SlotOf(r)]) = body[r.package.name]
                  /\ r.hash = Sha256(body[r.package.name])
                  /\ LastSegment(r.package.package_uri) \in DOMAIN files
                  /\ files[LastSegment(r.package.package_uri)] = body[r.package.name]

\* C19 as stated: the packages have distinct names, and no file is written
\* by two fetches.
C19_Original ==
    pc = "fetch" =>
        \A s1, s2 \in Created : s1 # s2 => PathOf(s1) # PathOf(s2)

====
